---- MODULE Spec2Model ----
(***************************************************************************)
(* Model of the chromana icon-font build pipeline (scripts/build.ts), of   *)
(* its glyph numbering and of the demo server (unnamed/part_004).          *)
(*                                                                         *)
(* Strings are sequences of one-character strings, so that the path and    *)
(* string operations of the script (dirname, basename, startsWith,         *)
(* toLowerCase, replace) are computed character by character.              *)
(* An absent TOML key (undefined) is modelled as the empty string: every   *)
(* use of name / ligature_prefix in the script is a truthiness test.       *)
(***************************************************************************)
EXTENDS Integers, Sequences, FiniteSets, TLC

(***************************************************************************)
(* Bounds of the model.                                                    *)
(***************************************************************************)
MaxFiles == 2
MaxDirs == 2
MaxFailures == 1

(***************************************************************************)
(* Generic sequence helpers.                                               *)
(***************************************************************************)
Range(s) == {s[i] : i \in 1..Len(s)}

SeqsNoDup(S, n) == {s \in UNION {[1..k -> S] : k \in 0..n} :
                       \A i, j \in 1..Len(s) : i # j => s[i] # s[j]}

(***************************************************************************)
(* String and path operations (String.prototype / node:path, posix).       *)
(***************************************************************************)
SLASH == "/"

startsWith(s, p) == /\ Len(p) <= Len(s)
                    /\ \A i \in 1..Len(p) : s[i] = p[i]

endsWith(s, p) == /\ Len(p) <= Len(s)
                  /\ \A i \in 1..Len(p) : s[Len(s) - Len(p) + i] = p[i]

\* Index of the last occurrence of c in s[1..i], 0 when there is none.
RECURSIVE lastIndexOf(_, _, _)
lastIndexOf(s, c, i) ==
    IF i = 0 THEN 0
    ELSE IF s[i] = c THEN i
    ELSE lastIndexOf(s, c, i - 1)

\* Index of the last "/" of s, 0 when there is none.
LastSlash(s) == lastIndexOf(s, SLASH, Len(s))

\* path.dirname of a relative path without trailing slash.
dirname(p) == IF LastSlash(p) = 0 THEN <<".">>
              ELSE SubSeq(p, 1, LastSlash(p) - 1)

\* path.basename(p): the last segment ('' for the empty path).
basename(p) == SubSeq(p, LastSlash(p) + 1, Len(p))

\* path.basename(p, ext): the extension is removed when the last segment
\* ends with it and is not equal to it.
basenameExt(p, ext) ==
    LET b == basename(p)
    IN IF endsWith(b, ext) /\ Len(b) > Len(ext)
       THEN SubSeq(b, 1, Len(b) - Len(ext))
       ELSE b

\* Index of the first occurrence of c in s at or after i, 0 when none.
RECURSIVE indexOf(_, _, _)
indexOf(s, c, i) ==
    IF i > Len(s) THEN 0
    ELSE IF s[i] = c THEN i
    ELSE indexOf(s, c, i + 1)

\* The segments of a path between its slashes, empty segments left out.
RECURSIVE Segments(_)
Segments(p) ==
    IF p = <<>> THEN <<>>
    ELSE LET k == indexOf(p, SLASH, 1)
         IN IF k = 0 THEN <<p>>
            ELSE (IF k = 1 THEN <<>> ELSE <<SubSeq(p, 1, k - 1)>>)
                     \o Segments(SubSeq(p, k + 1, Len(p)))

RECURSIVE JoinSegments(_)
JoinSegments(segs) ==
    IF segs = <<>> THEN <<>>
    ELSE IF Len(segs) = 1 THEN segs[1]
    ELSE segs[1] \o <<SLASH>> \o JoinSegments(Tail(segs))

\* path.join(a, b) for paths relative to a base directory: the two are
\* joined with a slash and normalised (empty and "." segments removed; the
\* paths of the model have no ".." segment and no trailing slash).
join(a, b) ==
    JoinSegments(SelectSeq(Segments(a \o <<SLASH>> \o b),
                           LAMBDA seg : seg # <<".">>))

UpperCase == {"A","B","C","D","E","F","G","H","I","J","K","L","M",
              "N","O","P","Q","R","S","T","U","V","W","X","Y","Z"}
LowerCase == {"a","b","c","d","e","f","g","h","i","j","k","l","m",
              "n","o","p","q","r","s","t","u","v","w","x","y","z"}
Digits == {"0","1","2","3","4","5","6","7","8","9"}

LowerOf == [c \in UpperCase |->
    CASE c = "A" -> "a" [] c = "B" -> "b" [] c = "C" -> "c" [] c = "D" -> "d"
      [] c = "E" -> "e" [] c = "F" -> "f" [] c = "G" -> "g" [] c = "H" -> "h"
      [] c = "I" -> "i" [] c = "J" -> "j" [] c = "K" -> "k" [] c = "L" -> "l"
      [] c = "M" -> "m" [] c = "N" -> "n" [] c = "O" -> "o" [] c = "P" -> "p"
      [] c = "Q" -> "q" [] c = "R" -> "r" [] c = "S" -> "s" [] c = "T" -> "t"
      [] c = "U" -> "u" [] c = "V" -> "v" [] c = "W" -> "w" [] c = "X" -> "x"
      [] c = "Y" -> "y" [] c = "Z" -> "z"]

toLowerCase(s) == [i \in 1..Len(s) |->
                      IF s[i] \in UpperCase THEN LowerOf[s[i]] ELSE s[i]]

\* s.replace(/[^a-z0-9]/g, '')
stripNonAlnum(s) == SelectSeq(s, LAMBDA c : c \in LowerCase \cup Digits)

(***************************************************************************)
(* Font configuration (build.ts 14-20).                                    *)
(***************************************************************************)
fontName == <<"c","h","r","o","m","a","n","a">>
fontFamily == <<"C","h","r","o","m","a","n","a">>
cssPrefix == <<"c","m">>
PUABase == 57344
CodeUnits == 65536

DOT_SVG == <<".","s","v","g">>
CONFIG_TOML == <<"c","o","n","f","i","g",".","t","o","m","l">>
ROOT == <<>>

(***************************************************************************)
(* The icon root: the files the two globs can find.                        *)
(***************************************************************************)
dirM == <<"m">>
dirM2 == <<"m","2">>
dirGM == <<"g","/","M","_">>

IconSetDirs == {dirM, dirM2, dirGM}

ConfigPath(d) == d \o <<SLASH>> \o CONFIG_TOML

\* The config files glob('**/config.toml') can find, the one placed
\* directly in the icon root included.
ConfigFiles == {ConfigPath(d) : d \in IconSetDirs} \cup {CONFIG_TOML}

fileW == <<"W",".","s","v","g">>
fileMU == <<"m","/","s","/","U",".","s","v","g">>
fileM2U == <<"m","2","/","U",".","s","v","g">>

IconFiles == {fileW, fileMU, fileM2U}

\* What toml.parse yields for the config.toml of each directory.
strMagic == <<"M","a","g","i","c">>
strMtg == <<"m","t","g">>

ConfigContent(d) ==
    CASE d = dirM  -> [name |-> strMagic, ligature_prefix |-> strMtg]
      [] d = dirM2 -> [name |-> <<>>, ligature_prefix |-> <<>>]
      [] d = dirGM -> [name |-> <<>>, ligature_prefix |-> <<"g">>]
      [] d = <<".">> -> [name |-> <<"R">>, ligature_prefix |-> <<"r">>]

(***************************************************************************)
(* State of one run of the build script.                                   *)
(***************************************************************************)
VARIABLES
    pc,             \* position of the script
    distExists,     \* the output directory exists
    dist,           \* output directory: file name -> [pass, content]
    writes,         \* every writeFileSync so far, in order: <<[pass, file]>>
    gameDirs,       \* build.ts 42-50
    svgFiles,       \* build.ts 56
    gameIcons,      \* build.ts 67: Map in insertion order, <<[key, files]>>
    gameConfigs,    \* build.ts 89: Map, key -> GameConfig
    fallbacks,      \* directories whose config fell back to the defaults
    configReads,    \* paths given to readFileSync by config loading, in order
    pass,           \* pass being built: index into gameIcons, last+1 = combined
    svgFontContent, \* glyphs of the vector font assembled in this pass
    ttfBuf,         \* glyphs of the TrueType buffer of this pass
    started,        \* passes started so far, in order
    errors,         \* console.error of a catch block: {[pass, step]}
    warnings,       \* passes that logged the WOFF2 warning
    failures,       \* number of library / file-system failures so far
    exitCode        \* -1 while running, else the exit status of the process

(***************************************************************************)
(* State of the glyph numbering of one font (the forEach of                *)
(* generateSVGFont) and of the demo server.                                *)
(***************************************************************************)
VARIABLES
    glyphPc,        \* "off", "write" (inside the forEach), "end"
    glyphCount,     \* files.length
    glyphIndex,     \* index of the next file of the forEach
    glyphUnicode,   \* code point of the glyph written last, -1 before
    glyphFirst,     \* code point of the glyph of index 0, -1 before
    srvPc,          \* "off", "start", "serving", "exit" (process.exit(1))
    fsys,           \* the paths that exist below rootDir
    readdirOrder,   \* the order in which readdirSync lists names
    fontSets,       \* part_004 28: the list built when the server starts
    request,        \* pathname of the request answered last, <<>> if none
    response        \* the Response returned for it

glyphVars == <<glyphPc, glyphCount, glyphIndex, glyphUnicode, glyphFirst>>

serverVars == <<srvPc, fsys, readdirOrder, fontSets, request, response>>

buildVars == <<pc, distExists, dist, writes, gameDirs, svgFiles, gameIcons,
               gameConfigs, fallbacks, configReads, pass, svgFontContent,
               ttfBuf, started, errors, warnings, failures, exitCode>>

EmptyMap == [k \in {} |-> <<>>]

Put(m, k, v) == [x \in DOMAIN m \cup {k} |-> IF x = k THEN v ELSE m[x]]

\* Nothing has been discovered, built or written.
BuildFresh ==
    /\ distExists = FALSE
    /\ dist = EmptyMap
    /\ writes = <<>>
    /\ gameDirs = <<>>
    /\ svgFiles = <<>>
    /\ gameIcons = <<>>
    /\ gameConfigs = EmptyMap
    /\ fallbacks = {}
    /\ configReads = <<>>
    /\ pass = 0
    /\ svgFontContent = <<>>
    /\ ttfBuf = <<>>
    /\ started = <<>>
    /\ errors = {}
    /\ warnings = {}
    /\ failures = 0
    /\ exitCode = -1

BuildInit == pc = "ensureDir" /\ BuildFresh

\* The build script is not run.
BuildOff == pc = "off" /\ BuildFresh

(***************************************************************************)
(* Module top level: discovery (build.ts 37-64).                           *)
(***************************************************************************)
\* fs.ensureDirSync(distDir)
EnsureDir ==
    /\ pc = "ensureDir"
    /\ distExists' = TRUE
    /\ pc' = "globDirs"
    /\ UNCHANGED <<dist, writes, gameDirs, svgFiles, gameIcons, gameConfigs,
                   fallbacks, configReads, pass,
                   svgFontContent, ttfBuf, started, errors, warnings,
                   failures, exitCode>>

\* The discovery without the push('') of line 50.
DiscoverGameDirsNoRoot ==
    /\ pc = "globDirs"
    /\ \E found \in SeqsNoDup(IconSetDirs, MaxDirs) :
          LET files == [i \in 1..Len(found) |-> ConfigPath(found[i])]
          IN gameDirs' = [i \in 1..Len(files) |-> dirname(files[i])]
    /\ pc' = "globSvg"
    /\ UNCHANGED <<distExists, dist, writes, svgFiles, gameIcons, gameConfigs,
                   fallbacks, configReads, pass,
                   svgFontContent, ttfBuf, started, errors, warnings,
                   failures, exitCode>>

\* glob('**/config.toml') mapped through path.dirname, then push('').
DiscoverGameDirs ==
    /\ pc = "globDirs"
    /\ \E found \in SeqsNoDup(IconSetDirs, MaxDirs) :
          LET files == [i \in 1..Len(found) |-> ConfigPath(found[i])]
          IN gameDirs' = Append([i \in 1..Len(files) |-> dirname(files[i])],
                                ROOT)
    /\ pc' = "globSvg"
    /\ UNCHANGED <<distExists, dist, writes, svgFiles, gameIcons, gameConfigs,
                   fallbacks, configReads, pass,
                   svgFontContent, ttfBuf, started, errors, warnings,
                   failures, exitCode>>

\* The same discovery in an icon root that has a config.toml of its own.
DiscoverGameDirsAtRoot ==
    /\ pc = "globDirs"
    /\ \E files \in SeqsNoDup(ConfigFiles, MaxDirs) :
          /\ CONFIG_TOML \in Range(files)
          /\ gameDirs' = Append([i \in 1..Len(files) |-> dirname(files[i])],
                                ROOT)
    /\ pc' = "globSvg"
    /\ UNCHANGED <<distExists, dist, writes, svgFiles, gameIcons, gameConfigs,
                   fallbacks, configReads, pass,
                   svgFontContent, ttfBuf, started, errors, warnings,
                   failures, exitCode>>

\* The discovery without the exit on an empty result.
DiscoverIconsNoExit ==
    /\ pc = "globSvg"
    /\ \E found \in SeqsNoDup(IconFiles, MaxFiles) :
          /\ svgFiles' = found
          /\ pc' = "group"
          /\ exitCode' = exitCode
    /\ UNCHANGED <<distExists, dist, writes, gameDirs, gameIcons, gameConfigs,
                   fallbacks, configReads, pass,
                   svgFontContent, ttfBuf, started, errors, warnings,
                   failures>>

\* glob('**/*.svg'); process.exit(0) when nothing is found.
DiscoverIcons ==
    /\ pc = "globSvg"
    /\ \E found \in SeqsNoDup(IconFiles, MaxFiles) :
          /\ svgFiles' = found
          /\ IF Len(found) = 0
             THEN pc' = "exit" /\ exitCode' = 0
             ELSE pc' = "group" /\ exitCode' = exitCode
    /\ UNCHANGED <<distExists, dist, writes, gameDirs, gameIcons, gameConfigs,
                   fallbacks, configReads, pass,
                   svgFontContent, ttfBuf, started, errors, warnings,
                   failures>>

(***************************************************************************)
(* Grouping (build.ts 66-86).                                              *)
(***************************************************************************)
\* The last element satisfying the test instead of the first.
FindGameDirLast(dirs, dirName) ==
    LET hit(i) == dirs[i] # ROOT /\ startsWith(dirName, dirs[i])
    IN IF \E i \in 1..Len(dirs) : hit(i)
       THEN CHOOSE i \in 1..Len(dirs) :
                hit(i) /\ \A j \in (i+1)..Len(dirs) : ~hit(j)
       ELSE 0

\* Array.prototype.find: index of the first element satisfying the test, 0
\* when there is none.
FindGameDir(dirs, dirName) ==
    LET hit(i) == dirs[i] # ROOT /\ startsWith(dirName, dirs[i])
    IN IF \E i \in 1..Len(dirs) : hit(i)
       THEN CHOOSE i \in 1..Len(dirs) : hit(i) /\ \A j \in 1..(i-1) : ~hit(j)
       ELSE 0

\* if (!map.has(key)) map.set(key, []); map.get(key).push(file)
MapPush(map, key, file) ==
    IF \E i \in 1..Len(map) : map[i].key = key
    THEN [i \in 1..Len(map) |->
             IF map[i].key = key
             THEN [key |-> key, files |-> Append(map[i].files, file)]
             ELSE map[i]]
    ELSE Append(map, [key |-> key, files |-> <<file>>])

\* The body of svgFiles.forEach for one file.
GroupOne(map, dirs, file) ==
    LET dirName == dirname(file)
    IN IF dirName = <<".">>
       THEN MapPush(map, ROOT, file)
       ELSE LET g == FindGameDir(dirs, dirName)
            IN IF g # 0 THEN MapPush(map, dirs[g], file) ELSE map

RECURSIVE GroupAll(_, _, _)
GroupAll(map, dirs, files) ==
    IF files = <<>> THEN map
    ELSE GroupAll(GroupOne(map, dirs, Head(files)), dirs, Tail(files))

GroupIcons ==
    /\ pc = "group"
    /\ gameIcons' = GroupAll(<<>>, gameDirs, svgFiles)
    /\ pc' = "configs"
    /\ UNCHANGED <<distExists, dist, writes, gameDirs, svgFiles, gameConfigs,
                   fallbacks, configReads, pass,
                   svgFontContent, ttfBuf, started, errors, warnings,
                   failures, exitCode>>

(***************************************************************************)
(* Config loading (build.ts 88-113).                                       *)
(***************************************************************************)
DefaultConfig == [name |-> fontFamily, ligature_prefix |-> cssPrefix]

\* The catch block: defaults derived from the directory.
FallbackConfig(gameDir) ==
    [name |-> gameDir,
     ligature_prefix |-> stripNonAlnum(toLowerCase(gameDir))]

\* build.ts 100-101: the paths read, one for each directory other than ''.
ConfigReadPaths(dirs) ==
    LET named == SelectSeq(dirs, LAMBDA d : d # ROOT)
    IN [i \in 1..Len(named) |-> join(named[i], CONFIG_TOML)]

\* corrupt: the directories whose config.toml cannot be read or parsed.
LoadConfig(gameDir, corrupt) ==
    IF gameDir = ROOT THEN DefaultConfig
    ELSE IF gameDir \in corrupt THEN FallbackConfig(gameDir)
    ELSE ConfigContent(gameDir)

\* Config loading that hands over to the combined build first.
LoadConfigsCombinedFirst ==
    /\ pc = "configs"
    /\ \E corrupt \in SUBSET (Range(gameDirs) \ {ROOT}) :
          /\ failures + Cardinality(corrupt) <= MaxFailures
          /\ failures' = failures + Cardinality(corrupt)
          /\ fallbacks' = corrupt
          /\ configReads' = ConfigReadPaths(gameDirs)
          /\ gameConfigs' = [d \in Range(gameDirs) |->
                                LoadConfig(d, corrupt)]
    /\ pc' = "svg"
    /\ pass' = Len(gameIcons) + 1
    /\ UNCHANGED <<distExists, dist, writes, gameDirs, svgFiles, gameIcons,
                   svgFontContent, ttfBuf, started, errors, warnings,
                   exitCode>>

LoadConfigs ==
    /\ pc = "configs"
    /\ \E corrupt \in SUBSET (Range(gameDirs) \ {ROOT}) :
          /\ failures + Cardinality(corrupt) <= MaxFailures
          /\ failures' = failures + Cardinality(corrupt)
          /\ fallbacks' = corrupt
          /\ configReads' = ConfigReadPaths(gameDirs)
          /\ gameConfigs' = [d \in Range(gameDirs) |->
                                LoadConfig(d, corrupt)]
    /\ pc' = "svg"
    /\ pass' = 1
    /\ UNCHANGED <<distExists, dist, writes, gameDirs, svgFiles, gameIcons,
                   svgFontContent, ttfBuf, started, errors, warnings,
                   exitCode>>

(***************************************************************************)
(* Passes: one per entry of gameIcons, then the combined pass.             *)
(***************************************************************************)
Combined == Len(gameIcons) + 1

IsGamePass(p) == p \in 1..Len(gameIcons)

\* Arguments of the pass: buildGameFont(gameDir, files) for a Map entry,
\* generateSVGFont('', svgFiles) etc. for the combined pass.
PassKey(p) == IF IsGamePass(p) THEN gameIcons[p].key ELSE ROOT

PassFiles(p) == IF IsGamePass(p) THEN gameIcons[p].files ELSE svgFiles

HasConfig(gameDir) == gameDir \in DOMAIN gameConfigs

\* gameDir ? `${fontName}-${path.basename(gameDir)}` : fontName
outputName(gameDir) ==
    IF gameDir # <<>> THEN fontName \o <<"-">> \o basename(gameDir)
    ELSE fontName

\* The game name taken from the directory alone.
gameNameFromDir(gameConfig, gameDir) ==
    IF basename(gameDir) # <<>> THEN basename(gameDir) ELSE fontFamily

\* gameConfig.name || path.basename(gameDir) || fontFamily
gameName(gameConfig, gameDir) ==
    IF gameConfig.name # <<>> THEN gameConfig.name
    ELSE IF basename(gameDir) # <<>> THEN basename(gameDir)
    ELSE fontFamily

\* gameConfig.ligature_prefix || cssPrefix
outputPrefix(gameConfig) ==
    IF gameConfig.ligature_prefix # <<>> THEN gameConfig.ligature_prefix
    ELSE cssPrefix

\* String.fromCharCode(0xE000 + index): one 16-bit code unit.
fromCharCode(n) == n % CodeUnits

\* build.ts 149-150: ligature of a glyph of the vector font.
fontLigature(gameConfig, filePath) ==
    LET name == basenameExt(filePath, DOT_SVG)
    IN IF gameConfig.ligature_prefix # <<>>
       THEN gameConfig.ligature_prefix \o <<"-">> \o name
       ELSE name

\* Glyphs numbered from 1 instead of 0.
GlyphsFromOne(gameConfig, files) ==
    [i \in 1..Len(files) |->
        [unicode   |-> fromCharCode(PUABase + i),
         name      |-> basenameExt(files[i], DOT_SVG),
         ligatures |-> fontLigature(gameConfig, files[i])]]

\* build.ts 147-160: the glyph metadata written to the font stream.
Glyphs(gameConfig, files) ==
    [i \in 1..Len(files) |->
        [unicode   |-> fromCharCode(PUABase + (i - 1)),
         name      |-> basenameExt(files[i], DOT_SVG),
         ligatures |-> fontLigature(gameConfig, files[i])]]

\* The stylesheet ligature without the prefix, as the single-font build
\* wrote it.
cssLigatureNoPrefix(gameConfig, file) == basenameExt(file, DOT_SVG)

\* build.ts 248-249: ligature of a stylesheet rule.
cssLigature(gameConfig, file) ==
    LET name == basenameExt(file, DOT_SVG)
    IN IF gameConfig.ligature_prefix # <<>>
       THEN gameConfig.ligature_prefix \o <<"-">> \o name
       ELSE name

Ext(e) == <<".">> \o e

\* A stylesheet whose classes take the ligature prefix as it is, without the
\* fallback to cssPrefix.
cssContentRawPrefix(gameDir, gameConfig, files) ==
    [family |-> IF gameConfig.name # <<>>
                THEN fontFamily \o <<" ">> \o gameConfig.name
                ELSE fontFamily,
     urls   |-> {outputName(gameDir) \o Ext(<<"e","o","t">>),
                 outputName(gameDir) \o Ext(<<"w","o","f","f","2">>),
                 outputName(gameDir) \o Ext(<<"w","o","f","f">>),
                 outputName(gameDir) \o Ext(<<"t","t","f">>),
                 outputName(gameDir) \o Ext(<<"s","v","g">>)},
     class  |-> gameConfig.ligature_prefix,
     rules  |-> [i \in 1..Len(files) |->
                    [class   |-> gameConfig.ligature_prefix \o <<"-">>
                                    \o basenameExt(files[i], DOT_SVG),
                     content |-> cssLigature(gameConfig, files[i])]]]

\* build.ts 221-252: the stylesheet text, as its parts.
cssContent(gameDir, gameConfig, files) ==
    [family |-> IF gameConfig.name # <<>>
                THEN fontFamily \o <<" ">> \o gameConfig.name
                ELSE fontFamily,
     urls   |-> {outputName(gameDir) \o Ext(<<"e","o","t">>),
                 outputName(gameDir) \o Ext(<<"w","o","f","f","2">>),
                 outputName(gameDir) \o Ext(<<"w","o","f","f">>),
                 outputName(gameDir) \o Ext(<<"t","t","f">>),
                 outputName(gameDir) \o Ext(<<"s","v","g">>)},
     class  |-> outputPrefix(gameConfig),
     rules  |-> [i \in 1..Len(files) |->
                    [class   |-> outputPrefix(gameConfig) \o <<"-">>
                                    \o basenameExt(files[i], DOT_SVG),
                     content |-> cssLigature(gameConfig, files[i])]]]

\* build.ts 268-269: ligature of a manifest entry.
jsonLigature(gameConfig, file) ==
    LET name == basenameExt(file, DOT_SVG)
    IN IF gameConfig.ligature_prefix # <<>>
       THEN gameConfig.ligature_prefix \o <<"-">> \o name
       ELSE name

\* A manifest entry that carries the game name for every group.
IconEntryAlwaysGame(gameDir, gameConfig, file) ==
    LET name == basenameExt(file, DOT_SVG)
    IN [name     |-> name,
        class    |-> outputPrefix(gameConfig) \o <<"-">> \o name,
        ligature |-> jsonLigature(gameConfig, file),
        game     |-> gameName(gameConfig, gameDir)]

\* build.ts 267-276: one manifest entry; JSON.stringify drops an undefined
\* game.
IconEntry(gameDir, gameConfig, file) ==
    LET name == basenameExt(file, DOT_SVG)
        base == [name     |-> name,
                 class    |-> outputPrefix(gameConfig) \o <<"-">> \o name,
                 ligature |-> jsonLigature(gameConfig, file)]
    IN IF gameDir # <<>>
       THEN [name     |-> base.name,
             class    |-> base.class,
             ligature |-> base.ligature,
             game     |-> gameName(gameConfig, gameDir)]
       ELSE base

iconsData(gameDir, gameConfig, files) ==
    [icons |-> [i \in 1..Len(files) |->
                   IconEntry(gameDir, gameConfig, files[i])]]

\* fs.writeFileSync(path.join(distDir, fileName), content) by the pass p.
WriteFile(fileName, content) ==
    /\ dist' = Put(dist, fileName, [pass |-> pass, content |-> content])
    /\ writes' = Append(writes, [pass |-> pass, file |-> fileName])

(***************************************************************************)
(* Leaving a pass.                                                         *)
(***************************************************************************)
\* build.ts 344-351: the next Map entry, or the combined build after the
\* last one; the script ends after the combined build.
NextPass ==
    IF IsGamePass(pass)
    THEN /\ pass' = pass + 1
         /\ pc' = "svg"
         /\ exitCode' = exitCode
    ELSE /\ pass' = pass
         /\ pc' = "done"
         /\ exitCode' = 0

\* A group catch that ends the process like the combined one.
buildGameFontCatchExits(step) ==
    /\ errors' = errors \cup {[pass |-> pass, step |-> step]}
    /\ pass' = pass
    /\ pc' = "exit"
    /\ exitCode' = 1

\* build.ts 309-311: buildGameFont's catch logs and returns.
buildGameFontCatch(step) ==
    /\ errors' = errors \cup {[pass |-> pass, step |-> step]}
    /\ NextPass

\* A combined catch that logs and returns like the group one.
buildCombinedFontCatchReturns(step) ==
    /\ errors' = errors \cup {[pass |-> pass, step |-> step]}
    /\ NextPass

\* build.ts 332-335: buildCombinedFont's catch logs and exits with 1.
buildCombinedFontCatch(step) ==
    /\ errors' = errors \cup {[pass |-> pass, step |-> step]}
    /\ pass' = pass
    /\ pc' = "exit"
    /\ exitCode' = 1

\* An exception thrown by a step of the current pass.
Throw(step) ==
    IF IsGamePass(pass) THEN buildGameFontCatch(step)
    ELSE buildCombinedFontCatch(step)

\* A step may fail while the failure budget lasts.
MayFail(ok) == ok \/ failures < MaxFailures

Count(ok) == failures' = IF ok THEN failures ELSE failures + 1

(***************************************************************************)
(* The steps of a pass (buildGameFont 289-312, buildCombinedFont 315-336). *)
(***************************************************************************)
\* generateSVGFont(gameDir, files): the promise resolves after the vector
\* font was written, or rejects (stream error, missing config).
GenerateSVGFont ==
    /\ pc = "svg"
    /\ started' = Append(started, pass)
    /\ \E ok \in BOOLEAN :
          /\ MayFail(ok)
          /\ Count(ok)
          /\ IF ok /\ HasConfig(PassKey(pass))
             THEN LET glyphs == Glyphs(gameConfigs[PassKey(pass)],
                                       PassFiles(pass))
                  IN /\ svgFontContent' = glyphs
                     /\ WriteFile(outputName(PassKey(pass)) \o DOT_SVG,
                                  [glyphs |-> glyphs])
                     /\ pc' = "ttf"
                     /\ UNCHANGED <<pass, errors, exitCode>>
             ELSE /\ Throw("svg")
                  /\ UNCHANGED <<dist, writes, svgFontContent>>
    /\ UNCHANGED <<distExists, gameDirs, svgFiles, gameIcons, gameConfigs,
                   fallbacks, configReads, ttfBuf, warnings>>

\* generateTTF(svgFontContent, outputName)
GenerateTTF ==
    /\ pc = "ttf"
    /\ \E ok \in BOOLEAN :
          /\ MayFail(ok)
          /\ Count(ok)
          /\ IF ok
             THEN /\ ttfBuf' = svgFontContent
                  /\ WriteFile(outputName(PassKey(pass))
                                  \o Ext(<<"t","t","f">>),
                               [buffer |-> svgFontContent])
                  /\ pc' = "woff"
                  /\ UNCHANGED <<pass, errors, exitCode, svgFontContent>>
             ELSE /\ Throw("ttf")
                  /\ svgFontContent' = <<>>
                  /\ UNCHANGED <<dist, writes, ttfBuf>>
    /\ UNCHANGED <<distExists, gameDirs, svgFiles, gameIcons, gameConfigs,
                   fallbacks, configReads, started, warnings>>

\* generateWOFF(ttfBuf, outputName): no try/catch of its own.
GenerateWOFF ==
    /\ pc = "woff"
    /\ \E ok \in BOOLEAN :
          /\ MayFail(ok)
          /\ Count(ok)
          /\ IF ok
             THEN /\ WriteFile(outputName(PassKey(pass))
                                  \o Ext(<<"w","o","f","f">>),
                               [buffer |-> ttfBuf])
                  /\ pc' = "woff2"
                  /\ UNCHANGED <<pass, errors, exitCode, svgFontContent,
                                 ttfBuf>>
             ELSE /\ Throw("woff")
                  /\ svgFontContent' = <<>>
                  /\ ttfBuf' = <<>>
                  /\ UNCHANGED <<dist, writes>>
    /\ UNCHANGED <<distExists, gameDirs, svgFiles, gameIcons, gameConfigs,
                   fallbacks, configReads, started, warnings>>

\* A WOFF2 catch that logs the warning and throws again.
generateWOFF2CatchRethrows ==
    /\ warnings' = warnings \cup {pass}
    /\ Throw("woff2")
    /\ svgFontContent' = <<>>
    /\ ttfBuf' = <<>>
    /\ UNCHANGED <<dist, writes>>

\* build.ts 195-198: generateWOFF2's own catch logs a warning and returns,
\* so the pass goes on with the next step.
generateWOFF2Catch ==
    /\ warnings' = warnings \cup {pass}
    /\ pc' = "eot"
    /\ UNCHANGED <<dist, writes, pass, errors, exitCode, svgFontContent,
                   ttfBuf>>

\* generateWOFF2(ttfBuf, outputName)
GenerateWOFF2 ==
    /\ pc = "woff2"
    /\ \E ok \in BOOLEAN :
          /\ MayFail(ok)
          /\ Count(ok)
          /\ IF ok
             THEN /\ WriteFile(outputName(PassKey(pass))
                                  \o Ext(<<"w","o","f","f","2">>),
                               [buffer |-> ttfBuf])
                  /\ pc' = "eot"
                  /\ UNCHANGED <<warnings, pass, errors, exitCode,
                                 svgFontContent, ttfBuf>>
             ELSE generateWOFF2Catch
    /\ UNCHANGED <<distExists, gameDirs, svgFiles, gameIcons, gameConfigs,
                   fallbacks, configReads, started>>

\* generateEOT(ttfBuf, outputName): no try/catch of its own.
GenerateEOT ==
    /\ pc = "eot"
    /\ \E ok \in BOOLEAN :
          /\ MayFail(ok)
          /\ Count(ok)
          /\ IF ok
             THEN /\ WriteFile(outputName(PassKey(pass))
                                  \o Ext(<<"e","o","t">>),
                               [buffer |-> ttfBuf])
                  /\ pc' = "css"
                  /\ UNCHANGED <<pass, errors, exitCode, svgFontContent,
                                 ttfBuf>>
             ELSE /\ Throw("eot")
                  /\ svgFontContent' = <<>>
                  /\ ttfBuf' = <<>>
                  /\ UNCHANGED <<dist, writes>>
    /\ UNCHANGED <<distExists, gameDirs, svgFiles, gameIcons, gameConfigs,
                   fallbacks, configReads, started, warnings>>

\* generateCSS(gameDir, files)
GenerateCSS ==
    /\ pc = "css"
    /\ \E ok \in BOOLEAN :
          /\ MayFail(ok)
          /\ Count(ok)
          /\ IF ok /\ HasConfig(PassKey(pass))
             THEN /\ WriteFile(outputName(PassKey(pass))
                                  \o Ext(<<"c","s","s">>),
                               cssContent(PassKey(pass),
                                          gameConfigs[PassKey(pass)],
                                          PassFiles(pass)))
                  /\ pc' = "json"
                  /\ UNCHANGED <<pass, errors, exitCode, svgFontContent,
                                 ttfBuf>>
             ELSE /\ Throw("css")
                  /\ svgFontContent' = <<>>
                  /\ ttfBuf' = <<>>
                  /\ UNCHANGED <<dist, writes>>
    /\ UNCHANGED <<distExists, gameDirs, svgFiles, gameIcons, gameConfigs,
                   fallbacks, configReads, started, warnings>>

\* generateIconsJSON(gameDir, files), the last step of a pass.
GenerateIconsJSON ==
    /\ pc = "json"
    /\ \E ok \in BOOLEAN :
          /\ MayFail(ok)
          /\ Count(ok)
          /\ IF ok /\ HasConfig(PassKey(pass))
             THEN /\ WriteFile(outputName(PassKey(pass))
                                  \o <<"-","i","c","o","n","s">>
                                  \o Ext(<<"j","s","o","n">>),
                               iconsData(PassKey(pass),
                                         gameConfigs[PassKey(pass)],
                                         PassFiles(pass)))
                  /\ NextPass
                  /\ UNCHANGED errors
             ELSE /\ Throw("json")
                  /\ UNCHANGED <<dist, writes>>
    /\ svgFontContent' = <<>>
    /\ ttfBuf' = <<>>
    /\ UNCHANGED <<distExists, gameDirs, svgFiles, gameIcons, gameConfigs,
                   fallbacks, configReads, started, warnings>>

(***************************************************************************)
(* Glyph numbering: the forEach of generateSVGFont (build.ts 143-160, and  *)
(* part_003 78-90 in the single-font build), one step per member file.     *)
(***************************************************************************)
MaxGlyphs == 65537

\* Numbers of member files of the pass.
FileCounts == {1, 6400, 6401, MaxGlyphs}

GlyphOff ==
    /\ glyphPc = "off"
    /\ glyphCount = 0
    /\ glyphIndex = 0
    /\ glyphUnicode = -1
    /\ glyphFirst = -1

\* The forEach is about to start on a list of files.
GlyphStart ==
    /\ glyphPc = "write"
    /\ glyphCount \in FileCounts
    /\ glyphIndex = 0
    /\ glyphUnicode = -1
    /\ glyphFirst = -1

\* One iteration: glyph.metadata.unicode = [String.fromCharCode(0xE000 +
\* index)], then fontStream.write(glyph).
WriteGlyph ==
    /\ glyphPc = "write"
    /\ glyphIndex < glyphCount
    /\ glyphUnicode' = fromCharCode(PUABase + glyphIndex)
    /\ glyphFirst' = IF glyphIndex = 0 THEN fromCharCode(PUABase + glyphIndex)
                     ELSE glyphFirst
    /\ glyphIndex' = glyphIndex + 1
    /\ UNCHANGED <<glyphPc, glyphCount>>

\* fontStream.end() after the last file.
EndFont ==
    /\ glyphPc = "write"
    /\ glyphIndex = glyphCount
    /\ glyphPc' = "end"
    /\ UNCHANGED <<glyphCount, glyphIndex, glyphUnicode, glyphFirst>>

(***************************************************************************)
(* Demo server (unnamed/part_004).  Paths are relative to rootDir.         *)
(***************************************************************************)
DOT_HTML == <<".","h","t","m","l">>

rootDir == <<>>
distDir == join(rootDir, <<"d","i","s","t">>)
demoDir == join(rootDir, <<"d","e","m","o">>)

nameM == <<"m">>
nameMHtml == <<"m",".","h","t","m","l">>
nameTtf == <<"f",".","t","t","f">>
nameA == <<"a",".","h","t","m","l">>
nameB == <<"b",".","h","t","m","l">>
nameIndex == <<"i","n","d","e","x",".","h","t","m","l">>
nameJs == <<"a",".","j","s">>

\* The directories and the regular files that can exist below rootDir.
FsDirs == {distDir, demoDir, join(distDir, nameM)}

FsFiles == {join(distDir, nameMHtml), join(distDir, nameTtf),
            join(join(distDir, nameM), nameA),
            join(join(distDir, nameM), nameB),
            join(demoDir, nameIndex), join(demoDir, nameJs)}

FsPaths == FsDirs \cup FsFiles

\* Every entry lies in a directory that exists.
WellFormed(S) == \A p \in S : dirname(p) = <<".">> \/ dirname(p) \in S

\* The two orders in which a directory listing can come.
NameOrder == <<nameA, nameJs, nameB, <<"d","e","m","o">>, <<"d","i","s","t">>,
               nameTtf, nameIndex, nameM, nameMHtml>>

Reverse(s) == [i \in 1..Len(s) |-> s[Len(s) + 1 - i]]

ReaddirOrders == {NameOrder, Reverse(NameOrder)}

\* statSync(p): the entry exists / isDirectory() / isFile().
Exists(p) == p \in fsys
IsDirectory(p) == p \in fsys /\ p \in FsDirs
IsFile(p) == p \in fsys /\ p \notin FsDirs

\* readdirSync(dir): the names of the entries of the directory.
readdirSync(dir) ==
    SelectSeq(readdirOrder, LAMBDA n : join(dir, n) \in fsys)

\* Index of the first occurrence of pat in s at or after i, 0 when none.
RECURSIVE indexOfSeq(_, _, _)
indexOfSeq(s, pat, i) ==
    IF i + Len(pat) - 1 > Len(s) THEN 0
    ELSE IF SubSeq(s, i, i + Len(pat) - 1) = pat THEN i
    ELSE indexOfSeq(s, pat, i + 1)

\* s.replace(pat, to) with a string pattern: the first occurrence only.
replace(s, pat, to) ==
    LET k == indexOfSeq(s, pat, 1)
    IN IF k = 0 THEN s
       ELSE SubSeq(s, 1, k - 1) \o to \o SubSeq(s, k + Len(pat), Len(s))

\* path.slice(n)
slice(s, n) == SubSeq(s, n + 1, Len(s))

strFonts == <<"/","f","o","n","t","s","/">>
strDist == <<"/","d","i","s","t","/">>

FontSet(code) == [code |-> code, demoUrl |-> strFonts \o code]

\* part_004 27-55: the .html files of dist, then the directories of dist.
BuildFontSets ==
    LET files == SelectSeq(readdirSync(distDir),
                           LAMBDA f : endsWith(f, DOT_HTML))
        items == SelectSeq(readdirSync(distDir),
                           LAMBDA it : IsDirectory(join(distDir, it)))
    IN [i \in 1..Len(files) |-> FontSet(replace(files[i], DOT_HTML, <<>>))]
          \o [i \in 1..Len(items) |-> FontSet(items[i])]

ServerOff ==
    /\ srvPc = "off"
    /\ fsys = {}
    /\ readdirOrder = <<>>
    /\ fontSets = <<>>
    /\ request = <<>>
    /\ response = [status |-> 0]

\* The script is about to run on some content of rootDir.
ServerStart ==
    /\ srvPc = "start"
    /\ fsys \in {S \in SUBSET FsPaths : WellFormed(S)}
    /\ readdirOrder \in ReaddirOrders
    /\ fontSets = <<>>
    /\ request = <<>>
    /\ response = [status |-> 0]

\* part_004 10-55: the script up to Bun.serve.
StartServer ==
    /\ srvPc = "start"
    /\ IF IsDirectory(distDir)
       THEN srvPc' = "serving" /\ fontSets' = BuildFontSets
       ELSE srvPc' = "exit" /\ fontSets' = fontSets
    /\ UNCHANGED <<fsys, readdirOrder, request, response>>

\* The responses: new Response(Bun.file(p)), the generated index page, and
\* new Response('Not Found', {status: 404}).
FileResponse(p) == [status |-> 200, file |-> p]

NotFound == [status |-> 404, text |-> "Not Found"]

\* No response yet: the handler goes on with its next block.
NoResponse == [status |-> 0]

\* part_004 58-141: one link per element of fontSets, in order.
generateFontIndexHtml ==
    [status |-> 200,
     links  |-> [i \in 1..Len(fontSets) |->
                    [href |-> fontSets[i].demoUrl, text |-> fontSets[i].code]]]

\* part_004 149-165: the root path.
IndexRoute(path) ==
    LET demoIndex == join(demoDir, nameIndex)
    IN IF path # <<SLASH>> THEN NoResponse
       ELSE IF ~Exists(demoIndex) THEN generateFontIndexHtml
       ELSE IF IsFile(demoIndex) THEN FileResponse(demoIndex)
       ELSE NoResponse

\* dirFiles.find(f => f.endsWith('.html')) taking the last match.
findHtmlLast(dirFiles) ==
    LET html == SelectSeq(dirFiles, LAMBDA f : endsWith(f, DOT_HTML))
    IN IF html = <<>> THEN <<>> ELSE html[Len(html)]

\* dirFiles.find(f => f.endsWith('.html')): the first match, undefined
\* (here the empty string) when there is none.
findHtml(dirFiles) ==
    LET html == SelectSeq(dirFiles, LAMBDA f : endsWith(f, DOT_HTML))
    IN IF html = <<>> THEN <<>> ELSE html[1]

\* part_004 171-195: the page looked for by a /fonts/ request.
HtmlPath(fontCode) ==
    IF SLASH \in Range(fontCode) THEN join(distDir, fontCode)
    ELSE LET direct == join(distDir, fontCode \o DOT_HTML)
             fontDir == join(distDir, fontCode)
         IN IF ~Exists(direct) /\ IsDirectory(fontDir)
               /\ findHtml(readdirSync(fontDir)) # <<>>
            THEN join(fontDir, findHtml(readdirSync(fontDir)))
            ELSE direct

\* part_004 167-203: the /fonts/ branch.
FontsRoute(path) ==
    IF startsWith(path, strFonts) /\ IsFile(HtmlPath(slice(path, 7)))
    THEN FileResponse(HtmlPath(slice(path, 7)))
    ELSE NoResponse

\* part_004 205-217: the file a path stands for.
FilePath(path) ==
    IF startsWith(path, strDist) THEN join(rootDir, path)
    ELSE IF startsWith(path, strFonts) THEN join(distDir, slice(path, 7))
    ELSE join(demoDir, path)

\* StaticRoute without the final return of line 231: a path that exists but
\* is no regular file gets no response.
StaticRouteNoFinalReturn(path) ==
    IF IsFile(FilePath(path)) THEN FileResponse(FilePath(path))
    ELSE IF ~Exists(FilePath(path)) THEN NotFound
    ELSE NoResponse

\* part_004 219-231: the file when it is a regular file, else 404.
StaticRoute(path) ==
    IF IsFile(FilePath(path)) THEN FileResponse(FilePath(path))
    ELSE NotFound

\* The fetch handler: the first block that returns a response.
fetch(path) ==
    IF IndexRoute(path) # NoResponse THEN IndexRoute(path)
    ELSE IF FontsRoute(path) # NoResponse THEN FontsRoute(path)
    ELSE StaticRoute(path)

\* The pathnames of the requests.
RequestPaths ==
    {<<SLASH>>,
     strFonts \o nameM,
     strFonts \o nameM \o <<SLASH>> \o nameA,
     strFonts \o nameTtf,
     strFonts \o <<"k">>,
     strFonts,
     strDist \o nameTtf,
     strDist \o nameM,
     <<SLASH>> \o nameJs,
     <<SLASH>> \o <<"k",".","j","s">>}

\* One request, answered by the fetch handler.
Fetch ==
    /\ srvPc = "serving"
    /\ \E path \in RequestPaths :
          /\ request' = path
          /\ response' = fetch(path)
    /\ UNCHANGED <<srvPc, fsys, readdirOrder, fontSets>>

\* Between two requests a file or a directory is created ...
CreateEntry ==
    /\ srvPc = "serving"
    /\ \E p \in FsPaths \ fsys :
          /\ WellFormed(fsys \cup {p})
          /\ fsys' = fsys \cup {p}
    /\ request' = <<>>
    /\ response' = NoResponse
    /\ UNCHANGED <<srvPc, readdirOrder, fontSets>>

\* ... or a file or an empty directory is removed.
RemoveEntry ==
    /\ srvPc = "serving"
    /\ \E p \in fsys :
          /\ WellFormed(fsys \ {p})
          /\ fsys' = fsys \ {p}
    /\ request' = <<>>
    /\ response' = NoResponse
    /\ UNCHANGED <<srvPc, readdirOrder, fontSets>>

(***************************************************************************)
(* The specifications: the build script in an icon root without and with   *)
(* a config.toml of its own, the glyph numbering of one font, the server.  *)
(***************************************************************************)
vars == <<buildVars, glyphVars, serverVars>>

Init == BuildInit /\ GlyphOff /\ ServerOff

Next ==
    \/ EnsureDir /\ UNCHANGED <<glyphVars, serverVars>>
    \/ DiscoverGameDirs /\ UNCHANGED <<glyphVars, serverVars>>
    \/ DiscoverIcons /\ UNCHANGED <<glyphVars, serverVars>>
    \/ GroupIcons /\ UNCHANGED <<glyphVars, serverVars>>
    \/ LoadConfigs /\ UNCHANGED <<glyphVars, serverVars>>
    \/ GenerateSVGFont /\ UNCHANGED <<glyphVars, serverVars>>
    \/ GenerateTTF /\ UNCHANGED <<glyphVars, serverVars>>
    \/ GenerateWOFF /\ UNCHANGED <<glyphVars, serverVars>>
    \/ GenerateWOFF2 /\ UNCHANGED <<glyphVars, serverVars>>
    \/ GenerateEOT /\ UNCHANGED <<glyphVars, serverVars>>
    \/ GenerateCSS /\ UNCHANGED <<glyphVars, serverVars>>
    \/ GenerateIconsJSON /\ UNCHANGED <<glyphVars, serverVars>>

Spec == Init /\ [][Next]_vars

\* The script is one sequential async run (build.ts 339-362): every awaited
\* step settles and the next statement is then executed, so a step that can
\* be taken is eventually taken.
FairSpec == Init /\ [][Next]_vars /\ WF_vars(Next)

NextRoot ==
    \/ EnsureDir /\ UNCHANGED <<glyphVars, serverVars>>
    \/ DiscoverGameDirsAtRoot /\ UNCHANGED <<glyphVars, serverVars>>
    \/ DiscoverIcons /\ UNCHANGED <<glyphVars, serverVars>>
    \/ GroupIcons /\ UNCHANGED <<glyphVars, serverVars>>
    \/ LoadConfigs /\ UNCHANGED <<glyphVars, serverVars>>
    \/ GenerateSVGFont /\ UNCHANGED <<glyphVars, serverVars>>
    \/ GenerateTTF /\ UNCHANGED <<glyphVars, serverVars>>
    \/ GenerateWOFF /\ UNCHANGED <<glyphVars, serverVars>>
    \/ GenerateWOFF2 /\ UNCHANGED <<glyphVars, serverVars>>
    \/ GenerateEOT /\ UNCHANGED <<glyphVars, serverVars>>
    \/ GenerateCSS /\ UNCHANGED <<glyphVars, serverVars>>
    \/ GenerateIconsJSON /\ UNCHANGED <<glyphVars, serverVars>>

SpecRoot == Init /\ [][NextRoot]_vars

GlyphNext ==
    \/ WriteGlyph /\ UNCHANGED <<buildVars, serverVars>>
    \/ EndFont /\ UNCHANGED <<buildVars, serverVars>>

GlyphInit == BuildOff /\ GlyphStart /\ ServerOff

GlyphSpec == GlyphInit /\ [][GlyphNext]_vars

ServerNext ==
    \/ StartServer /\ UNCHANGED <<buildVars, glyphVars>>
    \/ Fetch /\ UNCHANGED <<buildVars, glyphVars>>
    \/ CreateEntry /\ UNCHANGED <<buildVars, glyphVars>>
    \/ RemoveEntry /\ UNCHANGED <<buildVars, glyphVars>>

ServerInit == BuildOff /\ GlyphOff /\ ServerStart

ServerSpec == ServerInit /\ [][ServerNext]_vars

(***************************************************************************)
(* Notions the claims are stated in.                                       *)
(***************************************************************************)
Grouped == pc = "configs" \/ pass >= 1

ConfigsLoaded == pass >= 1

IconSets == Range(gameDirs) \ {ROOT}

\* Directory dir is the directory d or lies below it.
PathUnder(dir, d) == dir = d \/ startsWith(dir, d \o <<SLASH>>)

NonOverlapping ==
    \A d1, d2 \in IconSets : d1 # d2 => ~PathUnder(d1, d2)

AtRoot(f) == dirname(f) = <<".">>

AllUnderIconSets ==
    \A f \in Range(svgFiles) :
        AtRoot(f) \/ \E d \in IconSets : PathUnder(dirname(f), d)

\* The icon-set directory that contains the file, '' for a root file.
Owner(f) == IF AtRoot(f) THEN ROOT
            ELSE CHOOSE d \in IconSets : PathUnder(dirname(f), d)

GroupsOf(f) == {i \in 1..Len(gameIcons) : f \in Range(gameIcons[i].files)}

GroupKeys == {gameIcons[i].key : i \in 1..Len(gameIcons)}

\* The assembled vector font, the stylesheet, the manifest of a pass.
IsFont(f) == "glyphs" \in DOMAIN dist[f].content
IsSheet(f) == "rules" \in DOMAIN dist[f].content
IsManifest(f) == "icons" \in DOMAIN dist[f].content

SvgFile(gameDir) == outputName(gameDir) \o DOT_SVG
CssFile(gameDir) == outputName(gameDir) \o <<".","c","s","s">>
JsonFile(gameDir) ==
    outputName(gameDir) \o <<"-","i","c","o","n","s",".","j","s","o","n">>
EotFile(gameDir) == outputName(gameDir) \o <<".","e","o","t">>
Woff2File(gameDir) == outputName(gameDir) \o <<".","w","o","f","f","2">>

\* The pass p wrote the file at some point of the run.
Wrote(p, file) == \E i \in 1..Len(writes) :
                     writes[i].pass = p /\ writes[i].file = file

\* The pass p is over (it returned or was aborted).
PassOver(p) == pass > p \/ pc \in {"done", "exit"}

(***************************************************************************)
(* C1.  Grouping is a partition: when the icon-set directories do not      *)
(* overlap and every discovered file lies at the root or under one of      *)
(* them, every file is a member of exactly one group, that group is keyed  *)
(* by the icon-set directory containing the file ('' for a root file),     *)
(* and the group keys are exactly the directories (and the default group)  *)
(* that own files.                                                         *)
(***************************************************************************)
C1_GroupingPartition ==
    (Grouped /\ NonOverlapping /\ AllUnderIconSets) =>
        /\ \A f \in Range(svgFiles) :
              /\ Cardinality(GroupsOf(f)) = 1
              /\ \A i \in GroupsOf(f) : gameIcons[i].key = Owner(f)
        /\ GroupKeys = {Owner(f) : f \in Range(svgFiles)}

(***************************************************************************)
(* C2.  Output paths are exclusive per build pass: a file of the output    *)
(* directory written by one pass is never written again by another pass.   *)
(***************************************************************************)
C2_ExclusiveOutputPaths ==
    \A i, j \in 1..Len(writes) :
        writes[i].file = writes[j].file => writes[i].pass = writes[j].pass

(***************************************************************************)
(* C3.  The ligature of an icon is p-b for a non-empty prefix p and base   *)
(* name b, and b otherwise; the glyph of the font, the rule of the         *)
(* stylesheet and the entry of the manifest of a pass all carry it.        *)
(***************************************************************************)
ExpectedLigature(p, b) == IF p = <<>> THEN b ELSE p \o <<"-">> \o b

BaseName(file) == basenameExt(file, DOT_SVG)

C3_LigatureDerivation ==
    \A f \in DOMAIN dist :
        LET p == dist[f].pass
            prefix == gameConfigs[PassKey(p)].ligature_prefix
            files == PassFiles(p)
            c == dist[f].content
        IN /\ IsFont(f) =>
                /\ Len(c.glyphs) = Len(files)
                /\ \A i \in 1..Len(files) :
                      c.glyphs[i].ligatures
                          = ExpectedLigature(prefix, BaseName(files[i]))
           /\ IsSheet(f) =>
                /\ Len(c.rules) = Len(files)
                /\ \A i \in 1..Len(files) :
                      c.rules[i].content
                          = ExpectedLigature(prefix, BaseName(files[i]))
           /\ IsManifest(f) =>
                /\ Len(c.icons) = Len(files)
                /\ \A i \in 1..Len(files) :
                      c.icons[i].ligature
                          = ExpectedLigature(prefix, BaseName(files[i]))

\* A finished pass with an empty prefix and one with a non-empty prefix,
\* each with its font, stylesheet and manifest written.
AllThreeWritten(p) ==
    /\ Wrote(p, SvgFile(PassKey(p)))
    /\ Wrote(p, CssFile(PassKey(p)))
    /\ Wrote(p, JsonFile(PassKey(p)))

C3_Witness ==
    /\ ConfigsLoaded
    /\ \E p, q \in 1..Combined :
          /\ AllThreeWritten(p) /\ AllThreeWritten(q)
          /\ gameConfigs[PassKey(p)].ligature_prefix = <<>>
          /\ gameConfigs[PassKey(q)].ligature_prefix # <<>>
          /\ dist[JsonFile(PassKey(p))].pass = p
          /\ dist[CssFile(PassKey(q))].pass = q

(***************************************************************************)
(* C4.  Config fallback: for every icon-set directory whose config.toml    *)
(* cannot be read or parsed, the resolved name is the directory's base     *)
(* name and the prefix is that base name lower-cased with every character  *)
(* outside [a-z0-9] removed, nested directories included.                  *)
(***************************************************************************)
C4_ConfigFallback ==
    ConfigsLoaded =>
        \A d \in fallbacks :
            /\ gameConfigs[d].name = basename(d)
            /\ gameConfigs[d].ligature_prefix
                   = stripNonAlnum(toLowerCase(basename(d)))

(***************************************************************************)
(* C5.  Group failure isolation: a failure in the pass of one group is     *)
(* logged and aborts that pass only (its manifest is not written); the     *)
(* run goes on, so that at the end of a run every group and the combined   *)
(* font have been attempted, and only a failure of the combined pass       *)
(* sets a failure exit status.                                             *)
(***************************************************************************)
C5_GroupFailureIsolation ==
    /\ \A e \in errors :
          IsGamePass(e.pass) =>
              /\ pass > e.pass
              /\ ~Wrote(e.pass, JsonFile(PassKey(e.pass)))
    /\ exitCode = 1 => \E e \in errors : e.pass = Combined
    /\ (ConfigsLoaded /\ pc \in {"done", "exit"}) =>
          started = [i \in 1..Combined |-> i]

\* A group failed, a later group and the combined font were built after it.
C5_Witness ==
    /\ pc = "done"
    /\ \E e \in errors :
          /\ IsGamePass(e.pass)
          /\ IsGamePass(e.pass + 1)
          /\ Wrote(e.pass + 1, JsonFile(PassKey(e.pass + 1)))
          /\ Wrote(Combined, JsonFile(ROOT))

C7_ZeroIconsHalt ==
    (pc \notin {"ensureDir", "globDirs", "globSvg"} /\ svgFiles = <<>>) =>
        /\ pc = "exit"
        /\ exitCode = 0
        /\ started = <<>>
        /\ writes = <<>>
        /\ DOMAIN dist = {}

C7_Witness ==
    /\ pc = "exit"
    /\ svgFiles = <<>>
    /\ Len(gameDirs) > 1
    /\ exitCode = 0

(***************************************************************************)
(* C8.  Worked example: W.svg at the root, magic/config.toml (name Magic,  *)
(* prefix mtg) and magic/scryfall/U.svg.  Here the directory is m, the     *)
(* sub-directory s.                                                        *)
(***************************************************************************)
ExampleRoot ==
    /\ ConfigsLoaded
    /\ Range(gameDirs) = {dirM, ROOT}
    /\ Range(svgFiles) = {fileW, fileMU}
    /\ Len(svgFiles) = 2
    /\ fallbacks = {}

GroupOfKey(k) == CHOOSE i \in 1..Len(gameIcons) : gameIcons[i].key = k

strU == <<"U">>
strW == <<"W">>
strMtgU == <<"m","t","g","-","U">>
strCmW == <<"c","m","-","W">>

\* What the example says of the grouping and of the magic manifest.
ExampleGroupsAndManifest ==
    /\ GroupKeys = {ROOT, dirM}
    /\ Len(gameIcons) = 2
    /\ gameIcons[GroupOfKey(ROOT)].files = <<fileW>>
    /\ gameIcons[GroupOfKey(dirM)].files = <<fileMU>>
    /\ \A i \in 1..Len(svgFontContent) :
          (pc = "ttf" /\ PassKey(pass) = dirM) =>
              svgFontContent[i].ligatures = strMtgU
    /\ JsonFile(dirM) \in DOMAIN dist =>
          dist[JsonFile(dirM)].content.icons =
              <<[name |-> strU, class |-> strMtgU, ligature |-> strMtgU,
                 game |-> strMagic]>>

\* The ligature of the glyphs of the default group's font is lig.
DefaultGroupLigature(lig) ==
    (pc = "ttf" /\ IsGamePass(pass) /\ PassKey(pass) = ROOT) =>
        /\ Len(svgFontContent) = 1
        /\ svgFontContent[1].name = strW
        /\ svgFontContent[1].ligatures = lig

(***************************************************************************)
(* C8 as stated.  In the worked example there are exactly two groups, the  *)
(* default group {W} with ligature W and the magic group {U} with ligature *)
(* mtg-U, and the magic manifest has the one entry {U, mtg-U, mtg-U,       *)
(* Magic}.                                                                 *)
(***************************************************************************)
C8_WorkedExample ==
    ExampleRoot => (ExampleGroupsAndManifest /\ DefaultGroupLigature(strW))

(***************************************************************************)
(* C8 amended.  As stated, except that the ligature of W in the default    *)
(* group is cm-W: the default group's built-in config has the prefix cm.   *)
(***************************************************************************)
C8_WorkedExampleCm ==
    ExampleRoot => (ExampleGroupsAndManifest /\ DefaultGroupLigature(strCmW))

\* The example ran to its end: both group fonts were assembled and the
\* magic manifest is in the output directory.
C8_Witness ==
    /\ ExampleRoot
    /\ pc = "done"
    /\ Wrote(GroupOfKey(ROOT), SvgFile(ROOT))
    /\ Wrote(GroupOfKey(dirM), SvgFile(dirM))
    /\ JsonFile(dirM) \in DOMAIN dist

(***************************************************************************)
(* C9.  Ligature uniqueness: no two glyphs of one assembled font carry     *)
(* the same ligature.                                                      *)
(***************************************************************************)
C9_LigaturesUnique ==
    \A f \in DOMAIN dist :
        IsFont(f) =>
            \A i, j \in 1..Len(dist[f].content.glyphs) :
                i # j => dist[f].content.glyphs[i].ligatures
                            # dist[f].content.glyphs[j].ligatures

CodePoints(f) ==
    {dist[f].content.glyphs[i].unicode :
        i \in 1..Len(dist[f].content.glyphs)}

(***************************************************************************)
(* C10 as stated.  A code point assigned in one pass is never assigned in  *)
(* another pass of the same run: fonts assembled by different passes have  *)
(* no code point in common.                                                *)
(***************************************************************************)
C10_CodePointsNotReused ==
    \A f, g \in DOMAIN dist :
        (IsFont(f) /\ IsFont(g) /\ dist[f].pass # dist[g].pass) =>
            CodePoints(f) \cap CodePoints(g) = {}

(***************************************************************************)
(* C10 amended.  Code points are assigned by enumeration order within one  *)
(* pass: the glyph of the i-th member file (counted from 0) has the code   *)
(* point 0xE000 + i as a 16-bit code unit, and every pass starts again at  *)
(* 0xE000.                                                                 *)
(***************************************************************************)
C10_CodePointsByEnumeration ==
    \A f \in DOMAIN dist :
        IsFont(f) =>
            LET files == PassFiles(dist[f].pass)
                glyphs == dist[f].content.glyphs
            IN /\ Len(glyphs) = Len(files)
               /\ \A i \in 1..Len(glyphs) :
                     /\ glyphs[i].name = BaseName(files[i])
                     /\ glyphs[i].unicode = (PUABase + (i - 1)) % CodeUnits
               /\ glyphs # <<>> => glyphs[1].unicode = PUABase

\* Two passes each assembled a font of two glyphs.
C10_Witness ==
    \E f, g \in DOMAIN dist :
        /\ IsFont(f) /\ IsFont(g)
        /\ dist[f].pass # dist[g].pass
        /\ Len(dist[f].content.glyphs) = 2
        /\ Len(dist[g].content.glyphs) = 2

(***************************************************************************)
(* C12.  Manifest content: the manifest written by a pass has exactly one  *)
(* entry per member file, in member order, each with the icon's base name, *)
(* its class and its ligature; the entry has a game field exactly when the *)
(* pass is that of a group other than the default group, and the field is  *)
(* then the name of the icon set's resolved config (the directory's base   *)
(* name when the config has no name).                                      *)
(***************************************************************************)
\* Display name of the icon set in directory d.
DisplayName(d) == IF gameConfigs[d].name # <<>> THEN gameConfigs[d].name
                  ELSE basename(d)

\* Prefix of the classes of a group: the ligature prefix, cm when empty.
ClassPrefix(d) == IF gameConfigs[d].ligature_prefix # <<>>
                  THEN gameConfigs[d].ligature_prefix
                  ELSE cssPrefix

C12_ManifestContent ==
    \A f \in DOMAIN dist :
        IsManifest(f) =>
            LET p == dist[f].pass
                d == PassKey(p)
                files == PassFiles(p)
                icons == dist[f].content.icons
            IN /\ Len(icons) = Len(files)
               /\ \A i \in 1..Len(icons) :
                     /\ icons[i].name = BaseName(files[i])
                     /\ icons[i].class
                            = ClassPrefix(d) \o <<"-">> \o BaseName(files[i])
                     /\ icons[i].ligature
                            = ExpectedLigature(gameConfigs[d].ligature_prefix,
                                               BaseName(files[i]))
                     /\ ("game" \in DOMAIN icons[i]) <=> (d # ROOT)
                     /\ d # ROOT => icons[i].game = DisplayName(d)

\* The manifest of a named group and the manifest of the default group are
\* both in the output directory, each written by its group's pass.
C12_Witness ==
    /\ ConfigsLoaded
    /\ \E p, q \in 1..Len(gameIcons) :
          /\ PassKey(p) # ROOT /\ PassKey(q) = ROOT
          /\ JsonFile(PassKey(p)) \in DOMAIN dist
          /\ JsonFile(ROOT) \in DOMAIN dist
          /\ dist[JsonFile(PassKey(p))].pass = p
          /\ dist[JsonFile(ROOT)].pass = q

\* The rules of the stylesheet of a pass agree with the font and with the
\* manifest of the same pass, the classes having the given prefix.
SheetRules(f, prefix) ==
    LET p == dist[f].pass
        d == PassKey(p)
        files == PassFiles(p)
        rules == dist[f].content.rules
    IN /\ Len(rules) = Len(files)
       /\ \A i \in 1..Len(rules) :
             /\ rules[i].class = prefix \o <<"-">> \o BaseName(files[i])
             /\ (SvgFile(d) \in DOMAIN dist /\ dist[SvgFile(d)].pass = p) =>
                   rules[i].content
                       = dist[SvgFile(d)].content.glyphs[i].ligatures
             /\ (JsonFile(d) \in DOMAIN dist /\ dist[JsonFile(d)].pass = p) =>
                   rules[i].class = dist[JsonFile(d)].content.icons[i].class

(***************************************************************************)
(* C13 as stated.  A stylesheet has exactly one rule per member file; the  *)
(* class of the rule is <prefix>-<iconName> with the group's ligature      *)
(* prefix, its content is the ligature of the icon's glyph in the font of  *)
(* the pass, and its class is the class of the icon in the manifest of the *)
(* pass.                                                                   *)
(***************************************************************************)
C13_RuleClassLigaturePrefix ==
    \A f \in DOMAIN dist :
        IsSheet(f) =>
            SheetRules(f, gameConfigs[PassKey(dist[f].pass)].ligature_prefix)

(***************************************************************************)
(* C13 amended.  As stated, except that the prefix of the class is the     *)
(* group's ligature prefix only when that prefix is not empty, and cm      *)
(* otherwise (the ligature then has no prefix at all).                     *)
(***************************************************************************)
C13_RuleClassPrefixOrCm ==
    \A f \in DOMAIN dist :
        IsSheet(f) => SheetRules(f, ClassPrefix(PassKey(dist[f].pass)))

\* A group with an empty ligature prefix finished its pass: font, stylesheet
\* and manifest of that pass are in the output directory.
C13_Witness ==
    /\ ConfigsLoaded
    /\ \E p \in 1..Len(gameIcons) :
          /\ gameConfigs[PassKey(p)].ligature_prefix = <<>>
          /\ AllThreeWritten(p)
          /\ dist[SvgFile(PassKey(p))].pass = p
          /\ dist[CssFile(PassKey(p))].pass = p
          /\ dist[JsonFile(PassKey(p))].pass = p

(***************************************************************************)
(* C14.  Every font file that the font-face declaration of a stylesheet    *)
(* references is in the output directory once the stylesheet is written    *)
(* (nothing is ever removed from the output directory during a run).       *)
(***************************************************************************)
C14_FontFaceFilesExist ==
    \A f \in DOMAIN dist :
        IsSheet(f) => dist[f].content.urls \subseteq DOMAIN dist

\* Positions in gameDirs of the icon-set directories that are a prefix of
\* the containing directory of the file.
Matches(f) == {i \in 1..Len(gameDirs) :
                  gameDirs[i] # ROOT /\ startsWith(dirname(f), gameDirs[i])}

\* The file is in exactly one group, the one with key k.
InGroupOnly(f, k) ==
    /\ Cardinality(GroupsOf(f)) = 1
    /\ \A g \in GroupsOf(f) : gameIcons[g].key = k

(***************************************************************************)
(* C17.  Longest-prefix grouping: a file below the root whose containing   *)
(* directory has several icon-set directories as a prefix is in the group  *)
(* of the longest of them, whatever the discovery order.                   *)
(***************************************************************************)
C17_LongestPrefixGrouping ==
    Grouped =>
        \A f \in Range(svgFiles) :
            (~AtRoot(f) /\ Matches(f) # {}) =>
                \E i \in Matches(f) :
                    /\ \A j \in Matches(f) :
                          Len(gameDirs[j]) <= Len(gameDirs[i])
                    /\ InGroupOnly(f, gameDirs[i])

(***************************************************************************)
(* C18.  Grouping rule: a file of the root is in the default group only;   *)
(* any other file is in the group of the first icon-set directory, in      *)
(* discovery order, that is a prefix of its containing directory, and in   *)
(* no other group; a file below the root matched by no icon-set directory  *)
(* is in no group.                                                         *)
(***************************************************************************)
C18_GroupingRule ==
    Grouped =>
        \A f \in Range(svgFiles) :
            IF AtRoot(f) THEN InGroupOnly(f, ROOT)
            ELSE IF Matches(f) = {} THEN GroupsOf(f) = {}
            ELSE \E i \in Matches(f) :
                    /\ \A j \in Matches(f) : i <= j
                    /\ InGroupOnly(f, gameDirs[i])

\* Two icon-set directories are a prefix of the directory of a file, the
\* longer one was discovered first, and there is a root file as well.
C18_Witness ==
    /\ Grouped
    /\ \E f, g \in Range(svgFiles) :
          /\ AtRoot(g)
          /\ Cardinality(Matches(f)) = 2
          /\ \E i, j \in Matches(f) :
                i < j /\ Len(gameDirs[i]) > Len(gameDirs[j])

\* Position of the step that writes the file, in the order of a pass.
StepRank(file) ==
    CASE endsWith(file, Ext(<<"s","v","g">>)) -> 1
      [] endsWith(file, Ext(<<"t","t","f">>)) -> 2
      [] endsWith(file, Ext(<<"w","o","f","f">>)) -> 3
      [] endsWith(file, Ext(<<"w","o","f","f","2">>)) -> 4
      [] endsWith(file, Ext(<<"e","o","t">>)) -> 5
      [] endsWith(file, Ext(<<"c","s","s">>)) -> 6
      [] endsWith(file, Ext(<<"j","s","o","n">>)) -> 7

\* The history of a run is ordered: passes start in the order 1, 2, ..,
\* combined last, each at most once; each file is written by the pass of
\* the file written before it at a later step, or by a later pass (the
\* order being transitive, so is every pair); a pass starts only after
\* grouping and config loading, and with every earlier pass over.
HistoryOrdered ==
    /\ started = [i \in 1..Len(started) |-> i]
    /\ Len(started) <= Combined
    /\ \A i \in 1..(Len(writes) - 1) :
          \/ writes[i].pass < writes[i + 1].pass
          \/ /\ writes[i].pass = writes[i + 1].pass
             /\ StepRank(writes[i].file) < StepRank(writes[i + 1].file)
    /\ \A i \in 1..Len(writes) : writes[i].pass \in 1..Len(started)
    /\ started # <<>> =>
          /\ Grouped /\ ConfigsLoaded
          /\ DOMAIN gameConfigs = Range(gameDirs)
          /\ \A p \in Range(started) : p < Len(started) => PassOver(p)
    /\ (pc \in {"done", "exit"} /\ ConfigsLoaded) =>
          Len(started) = Combined

\* A step writes for the pass started last, and no pass starts while the
\* pass before it is between two of its steps.
StepInOrder ==
    /\ writes' # writes =>
          /\ started' # <<>>
          /\ writes'[Len(writes')].pass = started'[Len(started')]
    /\ started' # started => pc \in {"svg"}
    /\ (started # <<>> /\ pc' \notin {"done", "exit"}) =>
          /\ gameIcons' = gameIcons
          /\ gameConfigs' = gameConfigs

(***************************************************************************)
(* C19.  Pipeline ordering: the passes run one after another, the groups   *)
(* in turn and the combined pass after all of them; the steps of a pass    *)
(* occur in the order vector font, TTF, WOFF, WOFF2, EOT, stylesheet,      *)
(* manifest, never interleaved with steps of another pass; grouping and    *)
(* config loading are complete before the first pass starts.               *)
(***************************************************************************)
C19_PipelineOrdering == [](HistoryOrdered) /\ [][StepInOrder]_vars

\* A run with two group passes and the combined pass ended, each pass
\* having written its manifest.
C19_Witness ==
    /\ pc = "done"
    /\ Len(gameIcons) = 2
    /\ \A p \in 1..Combined : Wrote(p, JsonFile(PassKey(p)))

(***************************************************************************)
(* C11.  Demo server group route: GET /fonts/<code>, the code without a    *)
(* slash, is answered with <code>.html of the output directory when that   *)
(* file exists, otherwise with the first .html file listed in the output   *)
(* sub-directory <code>; a request for any other path than / that stands   *)
(* for no regular file is answered with 404 Not Found.                     *)
(***************************************************************************)
\* The request is GET /fonts/<code> with no slash in the code.
GroupRequest ==
    /\ startsWith(request, strFonts)
    /\ SLASH \notin Range(slice(request, 7))

\* The .html names of a directory, in listing order.
PagesIn(dir) ==
    SelectSeq(readdirSync(dir), LAMBDA n : endsWith(n, DOT_HTML))

\* The file a path stands for: below rootDir for /dist/.., below the output
\* directory for /fonts/.., below the demo directory otherwise.
ResolvesTo(path) ==
    IF startsWith(path, strDist) THEN slice(path, 1)
    ELSE IF startsWith(path, strFonts)
         THEN distDir \o <<SLASH>> \o slice(path, 7)
    ELSE demoDir \o path

C16_RootConfigNeverRead ==
    ConfigsLoaded =>
        /\ gameConfigs[ROOT] = [name |-> fontFamily,
                                ligature_prefix |-> cssPrefix]
        /\ CONFIG_TOML \notin Range(configReads)

(***************************************************************************)
(* C20.  The glyph of the i-th member file (counted from 0) has the code   *)
(* point 0xE000 + i as a 16-bit code unit; the code points of a pass lie   *)
(* in the private-use area 0xE000..0xF8FF and differ from each other       *)
(* (here: each differs from the code point of the first glyph).            *)
(***************************************************************************)
C20_CodePointsInPrivateUseArea ==
    glyphIndex > 0 =>
        /\ glyphUnicode = (PUABase + (glyphIndex - 1)) % CodeUnits
        /\ glyphUnicode \in 57344..63743
        /\ glyphIndex > 1 => glyphUnicode # glyphFirst

(***************************************************************************)
(* C21.  In every assembled font, the combined font included, the ligature *)
(* of a glyph is derived from the ligature prefix of the icon set (group)  *)
(* that owns the icon and from the icon's file name, so that an icon has   *)
(* the same ligature in the combined font as in the font of its group.     *)
(***************************************************************************)
C21_LigatureOfOwningSet ==
    \A f \in DOMAIN dist :
        IsFont(f) =>
            LET files == PassFiles(dist[f].pass)
                glyphs == dist[f].content.glyphs
            IN \A i \in 1..Len(glyphs) :
                  \A g \in GroupsOf(files[i]) :
                      glyphs[i].ligatures
                          = ExpectedLigature(
                                gameConfigs[gameIcons[g].key].ligature_prefix,
                                BaseName(files[i]))

\* The request answered last is GET / and there is no demo index file, so
\* that the generated listing page is the answer.
ListingRequest ==
    /\ srvPc = "serving"
    /\ request = <<SLASH>>
    /\ ~Exists(join(demoDir, nameIndex))

(***************************************************************************)
(* C22.  The server is stateless: a response depends only on the request   *)
(* path and on the file system at the time of the request.  For the        *)
(* generated listing page: its links are those of the list of font sets    *)
(* built from the output directory as it is when the request is answered.  *)
(***************************************************************************)
C22_ListingFromCurrentFiles ==
    ListingRequest =>
        /\ "links" \in DOMAIN response
        /\ response.links =
              [i \in 1..Len(BuildFontSets) |->
                  [href |-> BuildFontSets[i].demoUrl,
                   text |-> BuildFontSets[i].code]]

\* The .html files and the sub-directories of the output directory.
HtmlFilesNow == {n \in Range(NameOrder) :
                    endsWith(n, DOT_HTML) /\ IsFile(distDir \o <<SLASH>> \o n)}

SubDirsNow == {n \in Range(NameOrder) :
                  IsDirectory(distDir \o <<SLASH>> \o n)}

\* The entry of the listing for a code.
EntryFor(code) == [href |-> strFonts \o code, text |-> code]

(***************************************************************************)
(* C23.  Root route: GET / is answered with the demo index file when it    *)
(* exists, otherwise with a listing page that has one entry for each .html *)
(* file of the output directory (code: the name without .html) and one for *)
(* each of its sub-directories, each linking to /fonts/<code>, and no      *)
(* other entry.                                                            *)
(***************************************************************************)
C23_RootRoute ==
    (srvPc = "serving" /\ request = <<SLASH>>) =>
        LET demoIndex == demoDir \o <<SLASH>> \o nameIndex
        IN IF IsFile(demoIndex)
           THEN response = [status |-> 200, file |-> demoIndex]
           ELSE /\ "links" \in DOMAIN response
                /\ Len(response.links)
                      = Cardinality(HtmlFilesNow) + Cardinality(SubDirsNow)
                /\ Range(response.links)
                      = {EntryFor(SubSeq(n, 1, Len(n) - Len(DOT_HTML))) :
                            n \in HtmlFilesNow}
                        \cup {EntryFor(d) : d \in SubDirsNow}

GroupRouteHit ==
    LET code == slice(request, 7)
        page == join(distDir, code \o DOT_HTML)
        dir == join(distDir, code)
    IN /\ GroupRequest
       /\ \/ IsFile(page)
          \/ ~Exists(page) /\ IsDirectory(dir) /\ PagesIn(dir) # <<>>

Halted == pc \in {"done", "exit"}

CombinedThrew == \E e \in errors : e.pass = Combined

GroupThrew == \E e \in errors : IsGamePass(e.pass)

ExitStatus ==
    Halted =>
        /\ exitCode = IF CombinedThrew THEN 1 ELSE 0
        /\ svgFiles # <<>> =>
              /\ started = [i \in 1..Combined |-> i]
              /\ \A i \in 1..Len(gameIcons) : gameIcons[i].files # <<>>

InPass == pc \in {"svg", "ttf", "woff", "woff2", "eot", "css", "json"}

C26_ConfigAvailability ==
    /\ ConfigsLoaded =>
          /\ GroupKeys \cup {ROOT} \subseteq DOMAIN gameConfigs
          /\ \A k \in DOMAIN gameConfigs :
                DOMAIN gameConfigs[k] = {"name", "ligature_prefix"}
          /\ fallbacks \subseteq DOMAIN gameConfigs
    /\ InPass => HasConfig(PassKey(pass))
    /\ Cardinality(errors) + Cardinality(warnings) + Cardinality(fallbacks)
          <= failures

\* The pass of a group whose config is the fallback reached the manifest
\* step, after the font and stylesheet lookups.
C26_Witness ==
    /\ pc = "json"
    /\ IsGamePass(pass)
    /\ PassKey(pass) \in fallbacks
    /\ errors = {}

====
